---- MODULE Spec2Model ----
(***************************************************************************)
(* Water-quality prediction scripts of oceangpt-platform.                  *)
(*                                                                         *)
(*   variant "A"  src/src/main/resources/model_predictor.py                *)
(*   variant "B"  src/model_predictor.py                                   *)
(*   variant "C"  src/github-upload/src/main/resources/python/             *)
(*                model_predictor.py                                       *)
(*                                                                         *)
(* Numbers are fixed point.  Raw band values and covariates are in         *)
(* thousandths, coordinates in thousandths of a degree, feature-vector     *)
(* elements in units of 1/One, predictions (DIN, SRP, pH) in millionths.   *)
(* Chinese grade labels are written in pinyin: YouXiu, LiangHao, YiBan,    *)
(* JiaoCha, Cha, WeiZhi.                                                   *)
(***************************************************************************)
EXTENDS Integers, Sequences, FiniteSets, TLC

VARIABLES variant, env, req, pc, model, features, predictions, result, exitcode,
          triple, grade, vec, out1, out2

vars == <<variant, env, req, pc, model, features, predictions, result, exitcode,
          triple, grade, vec, out1, out2>>

-----------------------------------------------------------------------------
(* Bounds of the model.                                                    *)

\* how many elements beyond the nominal length a band array may carry
MaxExtra == 1
\* length of the short band arrays (shorter than nominal, not empty)
ShortLen == 2

-----------------------------------------------------------------------------
(* Scales and small helpers.                                               *)

\* one feature unit: 1.0 = One  (divisible by 180, 360 and 1000)
One == 360 * 1000
\* thousandths -> feature units
Milli(x) == x * 360

\* a JSON value that is not a number (a string, an object)
BadValue == 0 - 999999
IsNum(v) == v # BadValue

Max2(a, b) == IF a >= b THEN a ELSE b
Min2(a, b) == IF a <= b THEN a ELSE b

RECURSIVE SumSeq(_)
SumSeq(s) == IF s = <<>> THEN 0 ELSE Head(s) + SumSeq(Tail(s))

\* Python round(x, n) on a fixed-point x: the nearest multiple of q, ties to even
PyRound(x, q) ==
    LET lo == (x \div q) * q
        r  == x - lo
    IN  IF 2 * r < q THEN lo
        ELSE IF 2 * r > q THEN lo + q
        ELSE IF (lo \div q) % 2 = 0 THEN lo ELSE lo + q

\* np.log1p on the covariate values the requests carry (thousandths in,
\* thousandths out, rounded)
Log1pMilli(x) ==
    CASE x = 0     -> 0
      [] x = 500   -> 405
      [] x = 1000  -> 693
      [] x = 10000 -> 2398

-----------------------------------------------------------------------------
(* Variant A: the synthetic backend.                                        *)

\* random.uniform(lo, hi) rounded: the values the draw is sampled at
RandDIN == {10000, 50000, 123400, 150000}
RandSRP == {5000, 20000, 50000}
RandPH  == {7800000, 8100000, 8300000}

\* MockModel.predict on one row: the set of triples it can return
MockModel_predict(row) ==
    IF Len(row) >= 15
    THEN LET feature_sum == SumSeq(SubSeq(row, 1, 5))
             din == Max2(10000, Min2(150000, 50000 + feature_sum \div 18))
             srp == Max2(5000, Min2(50000, 20000 + feature_sum \div 36))
             ph  == Max2(7800000, Min2(8300000, 8000000 + (feature_sum * 10) \div 36))
         IN  {<<din, srp, ph>>}
    ELSE {<<d, s, p>> : d \in RandDIN, s \in RandSRP, p \in RandPH}

-----------------------------------------------------------------------------
(* Variant A: model loading.                                                *)

\* what load_model finds on disk, and whether joblib imports
ModelFiles == {"missing", "corrupt", "step", "raises", "empty"}

\* load_model(): the model the process ends up holding
load_model(e) ==
    IF e.modelFile = "missing" THEN "mock"
    ELSE IF ~e.joblib THEN "mock"
    ELSE IF e.modelFile = "corrupt" THEN "mock"
    ELSE e.modelFile

\* predict() of a loaded artifact that answers: a step function of the two
\* coordinate features (a tree-like regressor), with outputs off the rounding
\* grid
TrainedPredict(row) ==
    <<IF row[37] > (39001 + 90000) * 2 THEN 100049 ELSE 30051,
      IF row[38] > 119001 + 180000 THEN 31234 ELSE 12345,
      8123456>>

-----------------------------------------------------------------------------
(* Variant A: preprocess_input_data.                                        *)

N_S2 == 13
N_S3 == 21

\* lines 102-105 and 108-111: pad with 0.0 or truncate to n
FitBands(s, n) ==
    IF Len(s) < n THEN s \o [i \in 1..(n - Len(s)) |-> 0]
    ELSE IF Len(s) > n THEN SubSeq(s, 1, n)
    ELSE s

\* lines 126-139: the normalisation of element i (1-based) of the 38
normalize_feature(i, feature) ==
    IF i <= 34 THEN Max2(0, Min2(One, Milli(feature)))
    ELSE IF i <= 36 THEN Milli(Log1pMilli(Max2(0, feature)))
    ELSE IF i = 37 THEN (feature + 90000) * 2
    ELSE feature + 180000

preprocess_input_data(s2_data, s3_data, chl_nn, tsm_nn, latitude, longitude) ==
    LET feats == FitBands(s2_data, N_S2) \o FitBands(s3_data, N_S3)
                 \o <<chl_nn, tsm_nn, latitude, longitude>>
    IN  IF \E i \in 1..Len(feats) : ~IsNum(feats[i])
        THEN [i \in 1..39 |-> One \div 2]
        ELSE [i \in 1..Len(feats) |-> normalize_feature(i, feats[i])]

-----------------------------------------------------------------------------
(* Variant A: predict_water_quality and determine_water_quality_level.      *)

RoundTriple(t) == <<PyRound(t[1], 100), PyRound(t[2], 100), PyRound(t[3], 10000)>>

\* lines 176-183: the fallback of the except branch
RandomTriples == {<<d, s, p>> : d \in RandDIN, s \in RandSRP, p \in RandPH}

\* predict_water_quality without the rounding of lines 169-171
predict_unrounded(m, input_data) ==
    IF m = "mock" THEN MockModel_predict(input_data)
    ELSE IF m = "step" THEN {TrainedPredict(input_data)}
    ELSE RandomTriples

\* the set of triples predict_water_quality can return
predict_water_quality(m, input_data) ==
    IF m = "mock" THEN {RoundTriple(t) : t \in MockModel_predict(input_data)}
    ELSE IF m = "step" THEN {RoundTriple(TrainedPredict(input_data))}
    ELSE RandomTriples

\* determine_water_quality_level with strict comparisons on DIN
determine_strict_din(din, srp, ph) ==
    LET din_score == IF din < 50000 THEN 5
                     ELSE IF din < 80000 THEN 4
                     ELSE IF din < 120000 THEN 3
                     ELSE IF din < 150000 THEN 2
                     ELSE 1
        srp_score == 5 - Cardinality({t \in {10000, 20000, 30000, 40000} : srp > t})
        ph_score  == IF 8000000 <= ph /\ ph <= 8200000 THEN 5
                     ELSE IF 7900000 <= ph /\ ph <= 8300000 THEN 4
                     ELSE IF 7800000 <= ph /\ ph <= 8400000 THEN 3
                     ELSE IF 7700000 <= ph /\ ph <= 8500000 THEN 2
                     ELSE 1
        total3    == din_score + srp_score + ph_score
    IN  IF 2 * total3 >= 27 THEN "YouXiu"
        ELSE IF 2 * total3 >= 21 THEN "LiangHao"
        ELSE IF 2 * total3 >= 15 THEN "YiBan"
        ELSE IF 2 * total3 >= 9 THEN "JiaoCha"
        ELSE "Cha"

\* determine_water_quality_level with the scores of the third and fourth DIN
\* bands exchanged
determine_swapped_din(din, srp, ph) ==
    LET din_score == IF din <= 50000 THEN 5
                     ELSE IF din <= 80000 THEN 4
                     ELSE IF din <= 120000 THEN 2
                     ELSE IF din <= 150000 THEN 3
                     ELSE 1
        srp_score == 5 - Cardinality({t \in {10000, 20000, 30000, 40000} : srp > t})
        ph_score  == IF 8000000 <= ph /\ ph <= 8200000 THEN 5
                     ELSE IF 7900000 <= ph /\ ph <= 8300000 THEN 4
                     ELSE IF 7800000 <= ph /\ ph <= 8400000 THEN 3
                     ELSE IF 7700000 <= ph /\ ph <= 8500000 THEN 2
                     ELSE 1
        total3    == din_score + srp_score + ph_score
    IN  IF 2 * total3 >= 27 THEN "YouXiu"
        ELSE IF 2 * total3 >= 21 THEN "LiangHao"
        ELSE IF 2 * total3 >= 15 THEN "YiBan"
        ELSE IF 2 * total3 >= 9 THEN "JiaoCha"
        ELSE "Cha"

determine_water_quality_level(din, srp, ph) ==
    LET din_score == IF din <= 50000 THEN 5
                     ELSE IF din <= 80000 THEN 4
                     ELSE IF din <= 120000 THEN 3
                     ELSE IF din <= 150000 THEN 2
                     ELSE 1
        srp_score == IF srp <= 10000 THEN 5
                     ELSE IF srp <= 20000 THEN 4
                     ELSE IF srp <= 30000 THEN 3
                     ELSE IF srp <= 40000 THEN 2
                     ELSE 1
        ph_score  == IF 8000000 <= ph /\ ph <= 8200000 THEN 5
                     ELSE IF 7900000 <= ph /\ ph <= 8300000 THEN 4
                     ELSE IF 7800000 <= ph /\ ph <= 8400000 THEN 3
                     ELSE IF 7700000 <= ph /\ ph <= 8500000 THEN 2
                     ELSE 1
        total3    == din_score + srp_score + ph_score
    IN  IF 2 * total3 >= 27 THEN "YouXiu"
        ELSE IF 2 * total3 >= 21 THEN "LiangHao"
        ELSE IF 2 * total3 >= 15 THEN "YiBan"
        ELSE IF 2 * total3 >= 9 THEN "JiaoCha"
        ELSE "Cha"

-----------------------------------------------------------------------------
(* Variant B: helpers.                                                      *)

\* _mean: the float()-able elements only, 0.0 when there are none
\* (thousandths in, millionths out)
RECURSIVE CountNum(_)
CountNum(s) == IF s = <<>> THEN 0
               ELSE (IF IsNum(Head(s)) THEN 1 ELSE 0) + CountNum(Tail(s))
RECURSIVE SumNum(_)
SumNum(s) == IF s = <<>> THEN 0
             ELSE (IF IsNum(Head(s)) THEN Head(s) ELSE 0) + SumNum(Tail(s))

_mean(arr) ==
    IF arr = <<>> THEN 0
    ELSE IF CountNum(arr) > 0 THEN (SumNum(arr) * 1000) \div CountNum(arr)
    ELSE 0

_to_float(x, d) == IF IsNum(x) THEN x ELSE d

_clip(v, lo, hi) == IF v < lo THEN lo ELSE IF v > hi THEN hi ELSE v

_quality_by_din(din) ==
    IF din < 20000 THEN "EXCELLENT"
    ELSE IF din < 50000 THEN "GOOD"
    ELSE IF din < 100000 THEN "MODERATE"
    ELSE "POOR"

-----------------------------------------------------------------------------
(* The inputs: requests and start-up environments.                          *)

\* a band array of n elements: first element a, the others b
MkBands(n, a, b) == [i \in 1..n |-> IF i = 1 THEN a ELSE b]

S2Arrays == {<<>>}
            \cup {MkBands(n, a, 400) : n \in {ShortLen, N_S2, N_S2 + MaxExtra},
                                       a \in {0 - 500, 123, 1500, BadValue}}
S3Arrays == {<<>>} \cup {MkBands(n, 250, 250) : n \in {ShortLen, N_S3, N_S3 + MaxExtra}}

NoFields == [s2 |-> <<>>, s3 |-> <<>>, chl |-> 0, tsm |-> 0, lat |-> 0, lon |-> 0]

\* the request as it reaches the process: nothing, text that is no JSON, JSON
\* that is no object, or an object with the six fields
DictRequests ==
    {[kind |-> "dict", s2 |-> a, s3 |-> b, chl |-> c, tsm |-> t, lat |-> la, lon |-> lo] :
        a \in S2Arrays, b \in S3Arrays, c \in {0 - 2000, 0, 10000}, t \in {500},
        la \in {0, 39000, 100000}, lo \in {119000, 190000}}
OtherRequests ==
    {[kind |-> k, s2 |-> <<>>, s3 |-> <<>>, chl |-> 0, tsm |-> 0, lat |-> 0, lon |-> 0] :
        k \in {"empty", "badjson", "nondict"}}
Requests == DictRequests \cup OtherRequests

NoEnv == [modelFile |-> "missing", joblib |-> TRUE, torch |-> TRUE, mymodel |-> TRUE,
          ctor |-> TRUE, weights |-> "none", forward |-> TRUE]
EnvA == {[NoEnv EXCEPT !.modelFile = f, !.joblib = j] : f \in ModelFiles, j \in BOOLEAN}
EnvC == {[NoEnv EXCEPT !.torch = t, !.mymodel = m, !.ctor = c, !.weights = w, !.forward = f] :
            t \in BOOLEAN, m \in BOOLEAN, c \in BOOLEAN,
            w \in {"none", "absent", "corrupt", "good"}, f \in BOOLEAN}

\* no result printed yet
NoResult == [keys |-> {}, success |-> FALSE, error |-> "", DIN |-> 0, SRP |-> 0, pH |-> 0,
             level |-> "", confidence |-> 0]

IdlePure == /\ triple = <<0, 0, 0>>
            /\ grade = <<"", "">>
            /\ vec = <<>>
            /\ out1 = <<>>
            /\ out2 = <<>>

Init ==
    /\ \/ variant = "A" /\ env \in EnvA /\ req \in Requests
       \/ variant = "B" /\ env = NoEnv /\ req \in Requests
       \/ variant = "C" /\ env \in EnvC /\ req \in OtherRequests \cup {[kind |-> "dict"] @@ NoFields}
    /\ pc = "start"
    /\ model = "none"
    /\ features = <<>>
    /\ predictions = <<>>
    /\ result = NoResult
    /\ exitcode = "running"
    /\ IdlePure

-----------------------------------------------------------------------------
(* Variant A: main.                                                         *)

\* the except branch of main keeping the level and dropping the predictions
A_error_partial(msg) ==
    [keys |-> {"success", "error", "qualityLevel", "confidence"},
     success |-> FALSE, error |-> msg, DIN |-> 0, SRP |-> 0, pH |-> 0,
     level |-> "WeiZhi", confidence |-> 0]

\* lines 320-335: the except branch of main
A_error_response(msg) ==
    [keys |-> {"success", "error", "predictions", "qualityLevel", "confidence"},
     success |-> FALSE, error |-> msg, DIN |-> 0, SRP |-> 0, pH |-> 0,
     level |-> "WeiZhi", confidence |-> 0]

\* lines 307-315
A_response(p, quality_level, conf) ==
    [keys |-> {"success", "predictions", "qualityLevel", "confidence", "modelVersion",
               "processingTime"},
     success |-> TRUE, error |-> "", DIN |-> p[1], SRP |-> p[2], pH |-> p[3],
     level |-> quality_level, confidence |-> conf]

A_Fail(msg) ==
    /\ result' = A_error_response(msg)
    /\ exitcode' = "1"
    /\ pc' = "done"

\* lines 253-282: read argv, parse the JSON, take the fields
A_ReadInput ==
    /\ variant = "A" /\ pc = "start"
    /\ IF req.kind = "empty" THEN A_Fail("Missing input data")
       ELSE IF req.kind = "badjson" THEN A_Fail("JSONDecodeError")
       ELSE IF req.kind = "nondict" THEN A_Fail("AttributeError")
       ELSE pc' = "validate" /\ UNCHANGED <<result, exitcode>>
    /\ UNCHANGED <<variant, env, req, model, features, predictions, triple, grade,
                   vec, out1, out2>>

\* lines 284-286
A_missing_spectral(r) == r.s2 = <<>> \/ r.s3 = <<>>

A_Validate ==
    /\ variant = "A" /\ pc = "validate"
    /\ IF A_missing_spectral(req)
       THEN A_Fail("Missing S2 or S3 spectral data")
       ELSE pc' = "load" /\ UNCHANGED <<result, exitcode>>
    /\ UNCHANGED <<variant, env, req, model, features, predictions, triple, grade,
                   vec, out1, out2>>

\* lines 288-289
A_LoadModel ==
    /\ variant = "A" /\ pc = "load"
    /\ model' = load_model(env)
    /\ pc' = "preprocess"
    /\ UNCHANGED <<variant, env, req, features, predictions, result, exitcode,
                   triple, grade, vec, out1, out2>>

\* lines 291-294
A_Preprocess ==
    /\ variant = "A" /\ pc = "preprocess"
    /\ features' = preprocess_input_data(req.s2, req.s3, req.chl, req.tsm, req.lat, req.lon)
    /\ pc' = "predict"
    /\ UNCHANGED <<variant, env, req, model, predictions, result, exitcode,
                   triple, grade, vec, out1, out2>>

\* lines 296-300
A_Predict ==
    /\ variant = "A" /\ pc = "predict"
    /\ predictions' \in predict_water_quality(model, features)
    /\ pc' = "respond"
    /\ UNCHANGED <<variant, env, req, model, features, result, exitcode,
                   triple, grade, vec, out1, out2>>

\* line 312: round(random.uniform(0.8, 0.95), 3), sampled
RandConfidence == {800, 875, 950}

\* lines 302-318
A_Respond ==
    /\ variant = "A" /\ pc = "respond"
    /\ \E conf \in RandConfidence :
         result' = A_response(predictions,
                       determine_water_quality_level(predictions[1], predictions[2],
                                                     predictions[3]),
                       conf)
    /\ exitcode' = "0"
    /\ pc' = "done"
    /\ UNCHANGED <<variant, env, req, model, features, predictions, triple, grade,
                   vec, out1, out2>>

-----------------------------------------------------------------------------
(* Variant B: main.                                                         *)

B_error_response(msg) ==
    [NoResult EXCEPT !.keys = {"success", "error"}, !.error = msg]

\* lines 46-55: read stdin, parse the JSON; both failures print and return
B_ReadInput ==
    /\ variant = "B" /\ pc = "start"
    /\ IF req.kind = "empty"
       THEN result' = B_error_response("no input json") /\ exitcode' = "0" /\ pc' = "done"
       ELSE IF req.kind = "badjson"
       THEN result' = B_error_response("invalid json") /\ exitcode' = "0" /\ pc' = "done"
       ELSE pc' = "compute" /\ UNCHANGED <<result, exitcode>>
    /\ UNCHANGED <<variant, env, req, model, features, predictions, triple, grade,
                   vec, out1, out2>>

\* lines 57-74: the closed-form estimate (unrounded)
B_estimate(r) ==
    LET chl == _to_float(r.chl, 0)
        tsm == _to_float(r.tsm, 0)
        s2m == _mean(r.s2)
        s3m == _mean(r.s3)
        din == _clip(20000 + s2m \div 50 + s3m \div 100 + 2 * chl + 2 * tsm, 5000, 500000)
        srp == _clip(din \div 10, 5000, 60000)
        ph  == _clip(8000000 + (s2m - 100000) \div 20, 7000000, 8500000)
    IN  <<din, srp, ph>>

\* lines 76-90
B_response(t) ==
    [keys |-> {"success", "predictions", "waterQualityLevel", "confidence", "modelVersion",
               "location"},
     success |-> TRUE, error |-> "", DIN |-> PyRound(t[1], 100), SRP |-> PyRound(t[2], 100),
     pH |-> PyRound(t[3], 10000), level |-> _quality_by_din(t[1]), confidence |-> 850]

\* lines 57-92: data.get on JSON that is no object raises, and nothing catches it
B_Compute ==
    /\ variant = "B" /\ pc = "compute"
    /\ IF req.kind = "nondict"
       THEN /\ exitcode' = "crash"
            /\ UNCHANGED <<predictions, result>>
       ELSE /\ predictions' = B_estimate(req)
            /\ result' = B_response(B_estimate(req))
            /\ exitcode' = "0"
    /\ pc' = "done"
    /\ UNCHANGED <<variant, env, req, model, features, triple, grade, vec, out1, out2>>

-----------------------------------------------------------------------------
(* Variant C: module import, ModelPredictor.__init__, main.                 *)

C_error_response(msg) ==
    [NoResult EXCEPT !.keys = {"error", "success"}, !.error = msg]

\* lines 146-153: a single prediction, no success field
C_response ==
    [NoResult EXCEPT !.keys = {"prediction", "target_type", "unit", "confidence",
                               "model_version", "processing_time_ms"},
                     !.confidence = 850]

\* lines 8-29: import torch (unguarded), then the model module (sys.exit(1))
C_Import ==
    /\ variant = "C" /\ pc = "start"
    /\ IF ~env.torch THEN exitcode' = "crash" /\ pc' = "done"
       ELSE IF ~env.mymodel THEN exitcode' = "1" /\ pc' = "done"
       ELSE pc' = "args" /\ UNCHANGED exitcode
    /\ UNCHANGED <<variant, env, req, model, features, predictions, result, triple, grade,
                   vec, out1, out2>>

\* lines 166-174: argparse (a missing --input exits 2), json.loads
C_ParseArgs ==
    /\ variant = "C" /\ pc = "args"
    /\ IF req.kind = "empty"
       THEN exitcode' = "2" /\ pc' = "done" /\ UNCHANGED result
       ELSE IF req.kind = "badjson"
       THEN result' = C_error_response("JSONDecodeError") /\ exitcode' = "1" /\ pc' = "done"
       ELSE pc' = "init" /\ UNCHANGED <<result, exitcode>>
    /\ UNCHANGED <<variant, env, req, model, features, predictions, triple, grade,
                   vec, out1, out2>>

\* lines 32-66: the weights are loaded when the path is given, exists and loads
ModelPredictor_init(e) == IF e.weights = "good" THEN "torch_loaded" ELSE "torch_random"

\* line 177 with lines 185-191
C_Init ==
    /\ variant = "C" /\ pc = "init"
    /\ IF ~env.ctor
       THEN /\ result' = C_error_response("constructor")
            /\ exitcode' = "1" /\ pc' = "done" /\ UNCHANGED model
       ELSE /\ model' = ModelPredictor_init(env)
            /\ pc' = "predict" /\ UNCHANGED <<result, exitcode>>
    /\ UNCHANGED <<variant, env, req, features, predictions, triple, grade, vec, out1, out2>>

\* lines 180-191 with predict, lines 122-160
C_Predict ==
    /\ variant = "C" /\ pc = "predict"
    /\ IF req.kind = "nondict" \/ ~env.forward
       THEN result' = C_error_response("predict") /\ exitcode' = "1"
       ELSE result' = C_response /\ exitcode' = "0"
    /\ pc' = "done"
    /\ UNCHANGED <<variant, env, req, model, features, predictions, triple, grade,
                   vec, out1, out2>>

-----------------------------------------------------------------------------
Next ==
    \/ A_ReadInput \/ A_Validate \/ A_LoadModel \/ A_Preprocess \/ A_Predict \/ A_Respond
    \/ B_ReadInput \/ B_Compute
    \/ C_Import \/ C_ParseArgs \/ C_Init \/ C_Predict

Spec == Init /\ [][Next]_vars

-----------------------------------------------------------------------------
(* The classifiers as pure functions of a triple.                           *)

DINValues == {10000, 19999, 20000, 49999, 50000, 50001, 80000, 100000, 120000, 150000,
              150001, 200000, 200001, 450000}
SRPValues == {5000, 10000, 10001, 15000, 20000, 30000, 40000, 40001, 50000}
PHValues  == {6900000, 7500000, 7700000, 7750000, 7800000, 7900000, 8000000, 8100000,
              8200000, 8300000, 8400000, 8500000, 8550000, 8600000, 8800000}
Triples == {<<d, s, p>> : d \in DINValues, s \in SRPValues, p \in PHValues}

IdlePipeline ==
    /\ variant = "pure"
    /\ env = NoEnv
    /\ req = [kind |-> "empty"] @@ NoFields
    /\ model = "none"
    /\ features = <<>>
    /\ predictions = <<>>
    /\ result = NoResult
    /\ exitcode = "running"

InitClassify ==
    /\ IdlePipeline
    /\ pc = "input"
    /\ triple \in Triples
    /\ grade = <<"", "">>
    /\ vec = <<>> /\ out1 = <<>> /\ out2 = <<>>

Classify ==
    /\ variant = "pure" /\ pc = "input"
    /\ grade' = <<determine_water_quality_level(triple[1], triple[2], triple[3]),
                  _quality_by_din(triple[1])>>
    /\ pc' = "classified"
    /\ UNCHANGED <<variant, env, req, model, features, predictions, result, exitcode,
                   triple, vec, out1, out2>>

NextClassify == Classify

SpecClassify == InitClassify /\ [][NextClassify]_vars

-----------------------------------------------------------------------------
(* The synthetic backend called twice on one feature vector.                *)

VecLens == {0, 5, 14, 15, 38, 39}
Vecs == {MkBands(n, a, b) : n \in VecLens, a \in {0, Milli(123), One}, b \in {0, Milli(400)}}

InitMock ==
    /\ IdlePipeline
    /\ pc = "input"
    /\ triple = <<0, 0, 0>>
    /\ grade = <<"", "">>
    /\ vec \in Vecs
    /\ out1 = <<>> /\ out2 = <<>>

PredictTwice ==
    /\ variant = "pure" /\ pc = "input"
    /\ out1' \in MockModel_predict(vec)
    /\ out2' \in MockModel_predict(vec)
    /\ pc' = "predicted"
    /\ UNCHANGED <<variant, env, req, model, features, predictions, result, exitcode,
                   triple, grade, vec>>

NextMock == PredictTwice

SpecMock == InitMock /\ [][NextMock]_vars

-----------------------------------------------------------------------------
(* Properties.                                                              *)

\* severity of a grade label, 1 = best
ASeverity(l) == CASE l = "YouXiu" -> 1 [] l = "LiangHao" -> 2 [] l = "YiBan" -> 3
                  [] l = "JiaoCha" -> 4 [] l = "Cha" -> 5
BSeverity(l) == CASE l = "EXCELLENT" -> 1 [] l = "GOOD" -> 2 [] l = "MODERATE" -> 3
                  [] l = "POOR" -> 4

Max3(a, b, c) == Max2(a, Max2(b, c))
Abs(x) == IF x < 0 THEN 0 - x ELSE x

\* the tiers the specification gives (1 best .. 4 worst), boundary in the better tier
SpecDinTier(d) == 1 + Cardinality({t \in {200000, 300000, 400000} : d > t})
SpecSrpTier(s) == 1 + Cardinality({t \in {15000, 30000, 45000} : s > t})
SpecPhTier(p)  == IF 7800000 <= p /\ p <= 8500000 THEN 1
                  ELSE IF 7600000 <= p /\ p <= 8800000 THEN 2
                  ELSE IF 7400000 <= p /\ p <= 9000000 THEN 3
                  ELSE 4
SpecTier(t) == Max3(SpecDinTier(t[1]), SpecSrpTier(t[2]), SpecPhTier(t[3]))

\* C1 as stated: the grade is the worst of the three specified tiers, by both
\* classifiers; (0.01, 0.005, 8.0) gives the best grade and (0.01, 0.005, 6.9) the
\* worst.
C1_WorstOfThree ==
    pc = "classified" =>
        /\ ASeverity(grade[1]) = SpecTier(triple)
        /\ BSeverity(grade[2]) = SpecTier(triple)
        /\ triple = <<10000, 5000, 8000000>> => grade = <<"YouXiu", "EXCELLENT">>
        /\ triple = <<10000, 5000, 6900000>> => grade = <<"Cha", "POOR">>

\* the scores of the code, counted from its thresholds (5 best .. 1 worst)
DinScore(d) == 5 - Cardinality({t \in {50000, 80000, 120000, 150000} : d > t})
SrpScore(s) == 5 - Cardinality({t \in {10000, 20000, 30000, 40000} : s > t})
PhScore(p)  == 1 + Cardinality({r \in {100000, 200000, 300000, 400000} :
                                   Abs(p - 8100000) <= r})
LevelOfSum(n) ==
    LET k == Cardinality({m \in {14, 11, 8, 5} : n >= m})
    IN  CASE k = 4 -> "YouXiu" [] k = 3 -> "LiangHao" [] k = 2 -> "YiBan"
          [] k = 1 -> "JiaoCha" [] k = 0 -> "Cha"
DinOnlyLevel(d) ==
    LET k == Cardinality({t \in {20000, 50000, 100000} : d >= t})
    IN  CASE k = 0 -> "EXCELLENT" [] k = 1 -> "GOOD" [] k = 2 -> "MODERATE"
          [] k = 3 -> "POOR"

\* C1 amended: determine_water_quality_level grades the mean of three five-level
\* scores (DIN <= 0.05/0.08/0.12/0.15, SRP <= 0.01/0.02/0.03/0.04, pH within
\* 0.1/0.2/0.3/0.4 of 8.1; a boundary value gets the better score; mean >= 4.5,
\* 3.5, 2.5, 1.5 give the five grades), and _quality_by_din grades DIN alone
\* (< 0.02, < 0.05, < 0.1).  (0.01, 0.005, 8.0) gives the best grade;
\* (0.01, 0.005, 6.9) gives LiangHao, the second best, and EXCELLENT by DIN alone.
C1_MeanOfScores ==
    pc = "classified" =>
        /\ grade[1] = LevelOfSum(DinScore(triple[1]) + SrpScore(triple[2])
                                 + PhScore(triple[3]))
        /\ grade[2] = DinOnlyLevel(triple[1])
        /\ triple = <<10000, 5000, 8000000>> => grade = <<"YouXiu", "EXCELLENT">>
        /\ triple = <<10000, 5000, 6900000>> => grade = <<"LiangHao", "EXCELLENT">>

\* C1 witness: the triple (0.01, 0.005, 6.9) has been classified, and not as the
\* worst grade.
C1_Witness ==
    /\ pc = "classified"
    /\ triple = <<10000, 5000, 6900000>>
    /\ grade = <<"LiangHao", "EXCELLENT">>

-----------------------------------------------------------------------------
\* the nine grid points of the specification: offsets of 0.003 degrees
GridOffsets == {0 - 3, 0, 3}

\* the deterministic backends: the synthetic one and the loaded step regressor
Backend(m, row) == IF m = "mock" THEN CHOOSE t \in MockModel_predict(row) : TRUE
                   ELSE TrainedPredict(row)

BackendAt(m, r, dlat, dlon) ==
    Backend(m, preprocess_input_data(r.s2, r.s3, r.chl, r.tsm, r.lat + dlat, r.lon + dlon))

RECURSIVE SumOver(_, _, _, _)
SumOver(S, m, r, k) ==
    IF S = {} THEN 0
    ELSE LET o == CHOOSE x \in S : TRUE
         IN  BackendAt(m, r, o[1], o[2])[k] + SumOver(S \ {o}, m, r, k)

GridSum(m, r, k) == SumOver(GridOffsets \X GridOffsets, m, r, k)

Answered == variant = "A" /\ pc = "done" /\ result.success /\ model \in {"mock", "step"}

\* C2 as stated: with a deterministic backend the reported triple is, per
\* dimension, the mean of the nine backend outputs on the 3x3 grid.
C2_GridMean ==
    Answered =>
        /\ 9 * result.DIN = GridSum(model, req, 1)
        /\ 9 * result.SRP = GridSum(model, req, 2)
        /\ 9 * result.pH = GridSum(model, req, 3)

\* C2 amended: with a deterministic backend the reported triple is the backend's
\* output on the one feature vector of the request's own coordinates, rounded to
\* 4, 4 and 2 decimals; no grid is evaluated.
C2_SinglePoint ==
    Answered =>
        /\ result.DIN = PyRound(BackendAt(model, req, 0, 0)[1], 100)
        /\ result.SRP = PyRound(BackendAt(model, req, 0, 0)[2], 100)
        /\ result.pH = PyRound(BackendAt(model, req, 0, 0)[3], 10000)

\* C2 witness: a request answered by the loaded regressor whose reported DIN is not
\* the grid mean (the grid straddles the regressor's step).
C2_Witness ==
    /\ Answered
    /\ model = "step"
    /\ 9 * result.DIN < GridSum(model, req, 1) - 900

-----------------------------------------------------------------------------
IsError(r) == "success" \in r.keys /\ ~r.success

\* C3 as stated: a request object is answered with the error result exactly when
\* both s2Data and s3Data are empty.
C3_ErrorIffBothEmpty ==
    (variant \in {"A", "B"} /\ pc = "done" /\ req.kind = "dict" /\ result.keys # {}) =>
        (IsError(result) <=> (req.s2 = <<>> /\ req.s3 = <<>>))

-----------------------------------------------------------------------------
HasGrade(r) == "qualityLevel" \in r.keys \/ "waterQualityLevel" \in r.keys

WellFormed(r) ==
    /\ ("success" \in r.keys /\ r.success) =>
          /\ "predictions" \in r.keys
          /\ HasGrade(r)
          /\ r.level \notin {"", "WeiZhi"}
          /\ "error" \notin r.keys
    /\ ("success" \in r.keys /\ ~r.success) =>
          /\ "error" \in r.keys
          /\ r.error # ""
          /\ \/ "predictions" \notin r.keys /\ ~HasGrade(r)
             \/ /\ "predictions" \in r.keys /\ HasGrade(r)
                /\ r.DIN = 0 /\ r.SRP = 0 /\ r.pH = 0
                /\ r.level = "WeiZhi"

\* C4: every result a handler prints is well formed: with success=true the
\* predictions and a grade are present and no error is set; with success=false an
\* error message is present and predictions and grade are all absent or all
\* zeroed/unknown.  Variant A prints a result on every path.
C4_WellFormed ==
    /\ result.keys # {} => WellFormed(result)
    /\ (variant = "A" /\ pc = "done") => "success" \in result.keys

\* C4 witness: variant A has answered a request that is no JSON object with the
\* error result of its except branch.
C4_Witness ==
    /\ variant = "A" /\ pc = "done"
    /\ req.kind = "nondict"
    /\ IsError(result)
    /\ "predictions" \in result.keys

-----------------------------------------------------------------------------
\* C5 as stated: every element of the feature vector lies in [0, 1], and for valid
\* coordinates the last two are (lat+90)/180 and (lon+180)/360.
C5_UnitInterval ==
    (variant = "A" /\ features # <<>>) =>
        /\ \A i \in 1..Len(features) : 0 <= features[i] /\ features[i] <= One
        /\ (Len(features) = 38 /\ Abs(req.lat) <= 90000 /\ Abs(req.lon) <= 180000) =>
              /\ features[37] * 180 = (req.lat + 90000) * (One \div 1000)
              /\ features[38] * 360 = (req.lon + 180000) * (One \div 1000)

-----------------------------------------------------------------------------
\* C6 as stated: two calls of the synthetic backend on the same feature vector, of
\* any length, return the same triple.
C6_Deterministic == pc = "predicted" => out1 = out2

-----------------------------------------------------------------------------
\* C7 as stated: when the backend raises during scoring, the evaluation returns
\* the fixed triple DIN 0.05, SRP 0.02, pH 8.1.
C7_FixedDefault ==
    (variant = "A" /\ pc \in {"respond", "done"} /\ model = "raises") =>
        predictions = <<50000, 20000, 8100000>>

-----------------------------------------------------------------------------
\* a process that ended while constructing its backend
StartupAbort ==
    /\ pc = "done"
    /\ \/ variant = "A" /\ model = "none" /\ ~A_missing_spectral(req) /\ req.kind = "dict"
       \/ variant = "C" /\ (~env.torch \/ ~env.mymodel)
       \/ variant = "C" /\ result.error = "constructor"

\* C9 as stated: backend construction never aborts the process and never surfaces
\* as an error result; the process holds a usable backend afterwards, the
\* synthetic one whenever the trained artifact could not be loaded.
C9_NeverAborts ==
    /\ ~StartupAbort
    /\ (variant = "A" /\ pc \in {"preprocess", "predict", "respond"}) =>
          /\ model # "none"
          /\ (env.modelFile \in {"missing", "corrupt"} \/ ~env.joblib) => model = "mock"

-----------------------------------------------------------------------------
\* C10 as stated: the feature vector has 38 elements for every input, the neutral
\* all-0.5 vector of a failed normalisation included.
C10_Length38 ==
    (variant = "A" /\ features # <<>>) => Len(features) = 38

-----------------------------------------------------------------------------
\* distance of a pH from the interval [7.8, 8.5]
PhDist(p) == IF p < 7800000 THEN 7800000 - p
             ELSE IF p > 8500000 THEN p - 8500000
             ELSE 0

\* q lies on the other side of [7.8, 8.5] than p
OppositeSides(p, q) == (p < 7800000 /\ q > 8500000) \/ (p > 8500000 /\ q < 7800000)

\* u differs from t only by a larger DIN, a larger SRP, or a pH further from
\* [7.8, 8.5]
Worsens(t, u) ==
    /\ u # t
    /\ u[1] >= t[1]
    /\ u[2] >= t[2]
    /\ u[3] = t[3] \/ PhDist(u[3]) > PhDist(t[3])

NeverBetter(t, u) ==
    /\ ASeverity(determine_water_quality_level(u[1], u[2], u[3])) >= ASeverity(grade[1])
    /\ BSeverity(_quality_by_din(u[1])) >= BSeverity(grade[2])

\* C8 as stated: a larger DIN, a larger SRP or a pH further from [7.8, 8.5] never
\* gives a better grade.
C8_Monotonic ==
    pc = "classified" =>
        \A u \in Triples : Worsens(triple, u) => NeverBetter(triple, u)

\* C8 amended: a larger DIN, a larger SRP or a pH further from [7.8, 8.5] on the
\* same side of the interval (or moved out of it) never gives a better grade; a
\* pH moved to the other side of the interval may.
C8_MonotonicSameSide ==
    pc = "classified" =>
        \A u \in Triples :
            (Worsens(triple, u) /\ ~OppositeSides(triple[3], u[3])) => NeverBetter(triple, u)

\* C8 witness: a classified triple, and a triple with pH further out on the same
\* side whose grade is strictly worse.
C8_Witness ==
    /\ pc = "classified"
    /\ \E u \in Triples :
          /\ u[1] = triple[1] /\ u[2] = triple[2]
          /\ PhDist(u[3]) > PhDist(triple[3]) /\ PhDist(triple[3]) > 0
          /\ ~OppositeSides(triple[3], u[3])
          /\ ASeverity(determine_water_quality_level(u[1], u[2], u[3]))
               > ASeverity(grade[1])

====
